---- MODULE Spec2Model ----
(***************************************************************************)
(* State-machine model of the protocol code of pynl-base:                  *)
(*   - nimbelink/utils/xmodem.py      the XMODEM transfer engine           *)
(*   - nimbelink/debugger/ctrlAp.py   the CTRL-AP mailbox primitive        *)
(*   - nimbelink/debugger/mailbox.py  the mailbox request/response layer   *)
(* Each subsystem has its own variables, its own Init/Next and its own     *)
(* specification; a specification leaves the other subsystem's variables   *)
(* at their initial values.                                                *)
(***************************************************************************)
EXTENDS Integers, Sequences, FiniteSets, TLC

VARIABLES
    \* ---- Xmodem: the object, the device and the running transfer() call ----
    xpc,          \* position inside transfer(): idle/start/loop/send/pktResp/eot/eotResp/done
    data,         \* the argument of transfer(): [len, seed, mutable]
    packetSize,   \* self.packetSize
    rtscts,       \* self._device.rtscts
    packetId,     \* self._packetId
    count,        \* transfer()'s local `count`
    success,      \* transfer()'s local `success`
    packetData,   \* the chunk handed to _sendPacket (padded in place when a bytearray)
    again,        \* _sendPacket's loop is in a round after its first (a Nak was answered)
    lastFrame,    \* the frame last handed to _sendData by _sendPacket
    writes,       \* the device.write calls of the last _sendData: <<[data, accepted]>>
    rxByte,       \* the byte the running _getResponse last read (None: none, or not running)
    response,     \* the last value returned by _getResponse
    ended,        \* what _endTransmission returned: "notCalled", "True", "False"
    result,       \* what transfer() returned (read when xpc = "done")
    prev,         \* what the object carried into this transfer(): "nothing" (packet ID 1), or
                  \* an advanced packet ID left by a call that returned True / False
    \* ---- Xmodem: what an observer of the running transfer has seen ----
    startNak,     \* the initial Nak was received
    wrote,        \* some device.write call was made
    acked,        \* number of data frames answered with Ack
    fatal,        \* a data frame was answered with neither Ack nor Nak, or not in time
    pktFailed,    \* _sendPacket returned False
    eotWrites,    \* number of device.write calls that carried EOT
    eotAnswered,  \* _endTransmission got the value of _getResponse(stopTimeout)
    firstId,      \* packet ID of the first data frame (None before it)
    firstCount    \* data offset of the first data frame (None before it)

xvars == <<xpc, data, packetSize, rtscts, packetId, count, success, packetData, again,
           lastFrame, writes, rxByte, response, ended, result, prev, startNak, wrote,
           acked, fatal, pktFailed, eotWrites, eotAnswered, firstId, firstCount>>

\* the object's configuration and the running call's argument
xcfg == <<data, packetSize, rtscts>>

VARIABLES
    \* ---- CTRL-AP mailbox registers (shared with the target) ----
    txFull,       \* MailboxTxStatus: a debugger->CPU word is pending
    txWord,       \* MailboxTxData
    rxFull,       \* MailboxRxStatus: a CPU->debugger word is pending
    rxWord,       \* MailboxRxData
    \* ---- Mailbox: the running ping() / dfu() / convert() call ----
    mop,          \* the method running: "none", "ping", "dfu", "convert"
    mpc,          \* position: idle/clear/wrTop/wrWait/rdWait/sent/returned
    request,      \* request.buffer of the running _sendRequest
    pings,        \* number of ping() calls the running convert() has made
    widx,         \* writeMailbox: index (from 1) of the word of its for loop
    clock,        \* time.time() - start of the running writeMailbox / readMailbox, in ticks
    wnow,         \* writeMailbox: now - start of its current round
    timeout,      \* the local `timeout` of the running writeMailbox / readMailbox, in ticks
    wstart,       \* start of the running waitMailboxRead / waitMailboxWritten, on `clock`
    values,       \* readMailbox: the words read so far
    sres,         \* what _sendRequest returned: "None", "True", "False" ("running" before)
    mret,         \* what the method returned (read when mpc = "returned")
    \* ---- Mailbox: what an observer of the running _sendRequest / convert() has seen ----
    consumed,     \* number of words of this request the target has consumed
    txWrites,     \* the words written to MailboxTxData, in order
    rxReads,      \* the words read from MailboxRxData, in order
    wrOk,         \* what writeMailbox returned: "True", "False" ("none" before)
    rdOk,         \* what readMailbox returned: "values", "None" ("none" before)
    polled,       \* the time on `clock` of the last status poll of the running
                  \* writeMailbox / readMailbox after which it went on waiting (None before)
    convRes,      \* what the _sendRequest of convert()'s own request returned ("none" before)
    pingOks,      \* number of ping() calls of the running convert() that returned True
    stale,        \* the word that was pending in MailboxRxData when the running
                  \* _sendRequest was entered: "no" (none), "pending", "taken" (read
                  \* by readMailbox as a word of the response)
    marg,         \* the autoReboot argument of the running dfu() ("None" otherwise)
    convSent      \* what writeMailbox returned for convert()'s own request ("none" before)

mregs == <<txFull, txWord, rxFull, rxWord>>
mobs == <<consumed, txWrites, rxReads, wrOk, rdOk, polled>>
mvars == <<txFull, txWord, rxFull, rxWord, mop, mpc, request, pings, widx, clock, wnow,
           timeout, wstart, values, sres, mret, consumed, txWrites, rxReads, wrOk, rdOk,
           polled, convRes, pingOks, stale, marg, convSent>>

VARIABLES
    \* ---- Xmodem.Packet: one call of each class method ----
    payload,          \* getPacket's packetData argument
    payloadMutable,   \* whether packetData is a bytearray (else bytes)
    payloadId,        \* the packetId argument
    packet,           \* what getPacket did (NoPacket before the call)
    inverseId,        \* what getInversePacketId returned (None before the call)
    nextId            \* what getNextPacketId returned (None before the call)

pvars == <<payload, payloadMutable, payloadId, packet, inverseId, nextId>>

VARIABLES
    \* ---- CtrlAp.eraseAll / disableEraseProtect ----
    eraseStatus,      \* the EraseAllStatus register
    eraseWrites,      \* the register writes of the running call: <<register, value>>
    eop,              \* the method running: "none", "eraseAll", "disableEraseProtect"
    epc,              \* position: idle/poll/returned
    ei,               \* _waitAllErased: i of its for loop
    eret,             \* what the method returned (read when epc = "returned")
    epolls,           \* number of reads of EraseAllStatus the running call has made
    efirst,           \* what the first of them read (None before)
    ezero             \* whether a later one read 0

evars == <<eraseStatus, eraseWrites, eop, epc, ei, eret, epolls, efirst, ezero>>

VARIABLES
    \* ---- the AHB-AP port and the memory behind it ----
    csw,              \* the ControlStatus register, by its fields
    tar,              \* the TransferAddress register
    mem,              \* the memory: word number (address / 4) -> word
    \* ---- Ahb: the object and the running read() / write() call ----
    secure,           \* Ahb.secure
    aop,              \* the method running: "none", "read", "write"
    apc,              \* position in it
    address,          \* the `address` argument (write() advances it)
    avalues,          \* write(): its `values` argument; read(): its local `values`
    alength,          \* read(): its `length` argument
    aflush,           \* write(): its `flush` argument
    ai,               \* number of rounds of the data loop done
    aret,             \* write(): what it returned (read when apc = "returned")
    \* ---- Ahb: what an observer of the running call has seen ----
    address0,         \* the `address` the call was entered with
    tarWrites,        \* the values written to TransferAddress, in order
    cfg,              \* the last _configure call: its arguments, the value it read,
                      \* whether it wrote, and whether it repeats the call before it
                      \* on an untouched register (NoConfigure before)
    atail,            \* what the running call did on the port since it set its starting
                      \* address or wrote or read its last data word: _waitReady calls
                      \* that returned and TransferAddress writes, in order
    busy,             \* bit 7 of the ControlStatus value _waitReady read last
    apolls,           \* number of ControlStatus reads of the running _waitReady so far
    allFailed         \* every ControlStatus read of the running _waitReady has raised

avars == <<csw, tar, mem, secure, aop, apc, address, avalues, alength, aflush, ai, aret,
           address0, tarWrites, cfg, atail, busy, apolls, allFailed>>

vars == <<xvars, mvars, pvars, evars, avars>>

\* what the actions of each part leave alone
xrest == <<mvars, pvars, evars, avars>>
mrest == <<xvars, pvars, evars, avars>>
prest == <<xvars, mvars, evars, avars>>
erest == <<xvars, mvars, pvars, avars>>
arest == <<xvars, mvars, pvars, evars>>

(***************************************************************************)
(* Xmodem: constants                                                       *)
(***************************************************************************)
ChunkSize == 256
SmallSize == 128
LargeSize == 1024
TransferSizes == {128, 1024}
SmallStart == 1
LargeStart == 2
EndOfTransmission == 4
Ack == 6
Nak == 21
Cancelled == 24
Responses == {Ack, Nak}
padCharacter == 255
ByteMod == 256

\* Python's None where the code returns or holds it in place of a byte
None == -1

(***************************************************************************)
(* Bounds of the model                                                     *)
(***************************************************************************)
\* the longest data is MaxChunks small packets long
MaxChunks == 257

Min(a, b) == IF a < b THEN a ELSE b
Max(a, b) == IF a > b THEN a ELSE b

(***************************************************************************)
(* Xmodem.Packet                                                           *)
(***************************************************************************)
getInversePacketIdNegated(id) == (ByteMod - id) % ByteMod

getInversePacketId(id) == (255 - id) % ByteMod

getFirstPacketId == 1

\* mutant: the next packet ID is not kept a byte
getNextPacketIdNoWrap(id) == id + 1

getNextPacketId(id) == (id + 1) % ByteMod

RECURSIVE ChecksumLoopUnmasked(_, _, _, _)
ChecksumLoopUnmasked(bytes, checksum, lo, hi) ==
    IF lo > hi THEN checksum
    ELSE IF lo = hi THEN checksum + bytes[lo]
    ELSE LET mid == (lo + hi) \div 2
         IN  CHOOSE r \in { ChecksumLoopUnmasked(bytes, c, mid + 1, hi) :
                            c \in {ChecksumLoopUnmasked(bytes, checksum, lo, mid)} } : TRUE

\* the loop of getPacket over bytes lo..hi, entered with `checksum`:
\*     for byte in packetData: checksum = (checksum + byte) & 0xFF
\* The range is walked left to right in two halves, the first half's result
\* being the second half's starting value, which bounds the evaluation depth.
RECURSIVE ChecksumLoop(_, _, _, _)
ChecksumLoop(bytes, checksum, lo, hi) ==
    IF lo > hi THEN checksum
    ELSE IF lo = hi THEN (checksum + bytes[lo]) % ByteMod
    ELSE LET mid == (lo + hi) \div 2
         IN  CHOOSE r \in { ChecksumLoop(bytes, c, mid + 1, hi) :
                            c \in {ChecksumLoop(bytes, checksum, lo, mid)} } : TRUE

PadSubstitute(n) == [i \in 1..n |-> 26]

Pad(n) == [i \in 1..n |-> padCharacter]

getPacketTruncating(buf, id, mutable) ==
    LET kept        == SubSeq(buf, 1, Min(Len(buf), LargeSize))
        packetStart == IF Len(kept) <= SmallSize THEN SmallStart ELSE LargeStart
        padLength   == IF Len(kept) <= SmallSize THEN SmallSize - Len(kept)
                                                 ELSE LargeSize - Len(kept)
        padded      == IF padLength > 0 THEN kept \o Pad(padLength) ELSE kept
        header      == <<packetStart, id, getInversePacketId(id)>>
        footer      == <<ChecksumLoop(padded, 0, 1, Len(padded))>>
    IN  [raised |-> FALSE,
         frame  |-> header \o padded \o footer,
         buffer |-> IF mutable THEN padded ELSE buf]

\* getPacket(packetData, packetId) for a buffer that is a bytearray (mutable)
\* or a bytes object.  `raised`: ValueError; `frame`: the returned packet;
\* `buffer`: the caller's packetData object after the call.
getPacket(buf, id, mutable) ==
    IF Len(buf) > LargeSize
    THEN [raised |-> TRUE, frame |-> <<>>, buffer |-> buf]
    ELSE LET packetStart == IF Len(buf) <= SmallSize THEN SmallStart ELSE LargeStart
             padLength   == IF Len(buf) <= SmallSize THEN SmallSize - Len(buf)
                                                     ELSE LargeSize - Len(buf)
             padded      == IF padLength > 0 THEN buf \o Pad(padLength) ELSE buf
             header      == <<packetStart, id, getInversePacketId(id)>>
             footer      == <<ChecksumLoop(padded, 0, 1, Len(padded))>>
         IN  [raised |-> FALSE,
              frame  |-> header \o padded \o footer,
              buffer |-> IF mutable THEN padded ELSE buf]

(***************************************************************************)
(* Xmodem: the data handed to transfer()                                   *)
(***************************************************************************)
\* byte i (from 0) of the data described by d
DataByte(d, i) == (d.seed + 37 * i + 11 * (i \div SmallSize)) % ByteMod

\* Python's d[from : to] on the data described by d
DataSlice(d, from, to) ==
    [k \in 1..Max(0, Min(to, d.len) - from) |-> DataByte(d, from + k - 1)]

\* Python's s[from : to] on a sequence (0 <= from)
PySlice(s, from, to) == SubSeq(s, from + 1, Min(to, Len(s)))

(***************************************************************************)
(* Xmodem._sendData                                                        *)
(***************************************************************************)
\* by how many bytes device.write may fall short of what it is given
ShortBy == {0, 1}

\* the chunking loop of _sendData (no flow control): the slices written, in order
RECURSIVE Chunks(_)
Chunks(buf) ==
    IF Len(buf) < 1 THEN <<>>
    ELSE <<PySlice(buf, 0, ChunkSize)>> \o Chunks(PySlice(buf, ChunkSize, Len(buf)))

WriteSlicesWhole(buf, flow) == <<buf>>

\* the slices _sendData hands to device.write, in order
WriteSlices(buf, flow) == IF ~flow THEN Chunks(buf) ELSE <<buf>>

RECURSIVE SumAccepted(_, _)
SumAccepted(ws, n) == IF n = 0 THEN 0 ELSE SumAccepted(ws, n - 1) + ws[n].accepted

\* _sendData's return value, from the device.write calls it made
Sent(ws, dataLength) == SumAccepted(ws, Len(ws)) = dataLength

\* every run of _sendData(buf): the device.write calls with what each returned
SendDataRuns(buf, flow) ==
    LET slices == WriteSlices(buf, flow)
    IN  { [i \in 1..Len(slices) |->
              [data |-> slices[i], accepted |-> Len(slices[i]) - short[i]]] :
          short \in [1..Len(slices) -> ShortBy] }

(***************************************************************************)
(* Xmodem: what the peer may send                                          *)
(***************************************************************************)
\* bytes that are neither Ack nor Nak: a cancel, and the 'C' of XMODEM-CRC
Garbage == {Cancelled, 67}
PeerBytes == Responses \cup Garbage

\* the calls of transfer() explored: data of a few lengths in every
\* configuration, and one long data (packet IDs wrap) in small packets
ShortLens == {0, 1, 128, 129, 300, 1024, 1025}
LongLen == MaxChunks * SmallSize
XCalls ==
    { [d |-> [len |-> n, seed |-> 5, mutable |-> m], ps |-> ps, rts |-> f] :
        n \in ShortLens, m \in BOOLEAN, ps \in TransferSizes, f \in BOOLEAN }
    \cup
    { [d |-> [len |-> LongLen, seed |-> 5, mutable |-> m], ps |-> SmallSize, rts |-> TRUE] :
        m \in BOOLEAN }

(***************************************************************************)
(* Xmodem: the object after __init__, no transfer() called yet             *)
(***************************************************************************)
NoData == [len |-> 0, seed |-> 0, mutable |-> FALSE]

\* the locals of transfer() and the observations, before a call
XFresh ==
    /\ data = NoData
    /\ count = 0
    /\ success = FALSE
    /\ packetData = <<>>
    /\ again = FALSE
    /\ lastFrame = <<>>
    /\ writes = <<>>
    /\ rxByte = None
    /\ response = None
    /\ ended = "notCalled"
    /\ result = FALSE
    /\ startNak = FALSE
    /\ wrote = FALSE
    /\ acked = 0
    /\ fatal = FALSE
    /\ pktFailed = FALSE
    /\ eotWrites = 0
    /\ eotAnswered = FALSE
    /\ firstId = None
    /\ firstCount = None

XInit ==
    /\ xpc = "idle"
    /\ packetSize = LargeSize
    /\ rtscts = FALSE
    /\ packetId = getFirstPacketId
    /\ prev = "nothing"
    /\ XFresh

\* mutant: _startTransmission keeps the object's packet ID
StartPacketIdKept(id) == id

\* the packet ID _startTransmission starts a transfer with, given the
\* object's (line 347)
StartPacketId(id) == getFirstPacketId

\* transfer(data) is called on an object that is not inside a transfer():
\* success = False, count = 0, _clear() empties the device's buffers, and
\* _startTransmission sets the packet ID before it waits (lines 480-490, 346-353)
XTransfer(c) ==
    /\ xpc = "idle"
    /\ xpc' = "start"
    /\ data' = c.d
    /\ packetSize' = c.ps
    /\ rtscts' = c.rts
    /\ success' = FALSE
    /\ count' = 0
    /\ packetId' = StartPacketId(packetId)
    /\ UNCHANGED <<packetData, again, lastFrame, writes, rxByte, response, ended,
                   result, prev, startNak, wrote, acked, fatal, pktFailed, eotWrites,
                   eotAnswered, firstId, firstCount>>
    /\ UNCHANGED xrest

\* transfer() has returned `result`: its locals are gone, the object keeps
\* self._packetId and its configuration
XReturn ==
    /\ xpc = "done"
    /\ xpc' = "idle"
    /\ prev' = IF packetId = getFirstPacketId THEN "nothing"
               ELSE IF result THEN "afterTrue" ELSE "afterFalse"
    /\ data' = NoData /\ count' = 0 /\ success' = FALSE /\ packetData' = <<>>
    /\ again' = FALSE /\ lastFrame' = <<>> /\ writes' = <<>> /\ rxByte' = None
    /\ response' = None /\ ended' = "notCalled" /\ result' = FALSE
    /\ startNak' = FALSE /\ wrote' = FALSE /\ acked' = 0 /\ fatal' = FALSE
    /\ pktFailed' = FALSE /\ eotWrites' = 0 /\ eotAnswered' = FALSE
    /\ firstId' = None /\ firstCount' = None
    /\ UNCHANGED <<packetId, packetSize, rtscts>>
    /\ UNCHANGED xrest

\* what _getResponse does with a byte it read: "return" it, or "drop" it and
\* read on (lines 317-332)
OnByte(b, dropGarbage) ==
    IF b \in Responses THEN "return"
    ELSE IF dropGarbage THEN "drop"
    ELSE "return"

\* mutant: any valid response byte starts the transfer
StartedOnAnyResponse(r) == r \in Responses

\* _startTransmission's verdict on the value of _getResponse (lines 356-363)
Started(r) == r = Nak

\* _getResponse(startTimeout, dropGarbage = True) reads byte b from the device
XStartByte(b) ==
    /\ xpc = "start"
    /\ startNak' = (b = Nak)
    /\ IF OnByte(b, TRUE) = "drop"
       THEN rxByte' = b /\ UNCHANGED <<xpc, response, result>>
       ELSE /\ rxByte' = None
            /\ response' = b
            /\ xpc' = IF Started(b) THEN "loop" ELSE "done"
            /\ result' = FALSE
    /\ UNCHANGED <<xcfg, packetId, count, success, packetData, again, lastFrame,
                   writes, ended, prev, wrote, acked, fatal, pktFailed, eotWrites,
                   eotAnswered, firstId, firstCount>>
    /\ UNCHANGED xrest

\* _getResponse(startTimeout) runs out of time: transfer() returns False
XStartTimeout ==
    /\ xpc = "start"
    /\ response' = None
    /\ rxByte' = None
    /\ xpc' = IF Started(None) THEN "loop" ELSE "done"
    /\ result' = FALSE
    /\ UNCHANGED <<xcfg, packetId, count, success, packetData, again, lastFrame,
                   writes, ended, prev, startNak, wrote, acked, fatal, pktFailed,
                   eotWrites, eotAnswered, firstId, firstCount>>
    /\ UNCHANGED xrest

\* the top of transfer()'s loop: the next chunk goes to _sendPacket, or the
\* data is used up (lines 496-511)
XLoop ==
    /\ xpc = "loop"
    /\ LET chunk == DataSlice(data, count, count + packetSize)
       IN  /\ packetData' = chunk
           /\ IF Len(chunk) < 1
              THEN success' = TRUE /\ xpc' = "eot"
              ELSE success' = success /\ xpc' = "send"
    /\ again' = FALSE
    /\ UNCHANGED <<xcfg, packetId, count, lastFrame, writes, rxByte, response, ended,
                   result, prev, startNak, wrote, acked, fatal, pktFailed, eotWrites,
                   eotAnswered, firstId, firstCount>>
    /\ UNCHANGED xrest

\* one round of _sendPacket's loop up to the wait for the response: getPacket
\* twice (the first result is dropped), then _sendData (lines 423-440)
XSendPacket ==
    /\ xpc = "send"
    /\ \E first \in {getPacket(packetData, packetId, data.mutable)} :
       \E second \in {getPacket(first.buffer, packetId, data.mutable)} :
         /\ ~first.raised /\ ~second.raised
         /\ \E ws \in SendDataRuns(second.frame, rtscts) :
              /\ packetData' = second.buffer
              /\ lastFrame' = second.frame
              /\ writes' = ws
              /\ IF Sent(ws, Len(second.frame))
                 THEN xpc' = "pktResp" /\ pktFailed' = pktFailed
                 ELSE xpc' = "eot" /\ pktFailed' = TRUE
    /\ wrote' = TRUE
    /\ firstId' = IF firstId = None THEN packetId ELSE firstId
    /\ firstCount' = IF firstCount = None THEN count ELSE firstCount
    /\ UNCHANGED <<xcfg, packetId, count, success, again, rxByte, response, ended,
                   result, prev, startNak, acked, fatal, eotWrites, eotAnswered>>
    /\ UNCHANGED xrest

NextCountSkipping(c, sentData) == c + Len(sentData) + 1

\* transfer(): count += len(packetData), after _sendPacket (line 515)
NextCount(c, sentData) == c + Len(sentData)

\* mutant: a Nak moves on to the next chunk like an Ack
OnPacketResponseNakNext(r) == IF r \in {Ack, Nak} THEN "next" ELSE "fail"

\* mutant: whatever is not an Ack is retried
OnPacketResponseRetryAll(r) == IF r = Ack THEN "next" ELSE "retry"

\* what _sendPacket does with the response to a data frame (lines 445-461)
OnPacketResponse(r) ==
    IF r = Ack THEN "next"
    ELSE IF r = Nak THEN "retry"
    ELSE "fail"

\* _sendPacket has the value r of _getResponse(packetTimeout): a byte (garbage
\* is not dropped here) or None; on Ack transfer() moves on to the next chunk
\* (lines 443-461, 511-515)
XPacketResponse(r) ==
    /\ xpc = "pktResp"
    /\ response' = r
    /\ acked' = IF r = Ack THEN acked + 1 ELSE acked
    /\ fatal' = (fatal \/ r \notin Responses)
    /\ CASE OnPacketResponse(r) = "next" ->
              /\ packetId' = getNextPacketId(packetId)
              /\ count' = NextCount(count, packetData)
              /\ xpc' = "loop"
              /\ UNCHANGED <<again, pktFailed>>
         [] OnPacketResponse(r) = "retry" ->
              /\ xpc' = "send"
              /\ again' = TRUE
              /\ UNCHANGED <<packetId, count, pktFailed>>
         [] OTHER ->
              /\ xpc' = "eot"
              /\ pktFailed' = TRUE
              /\ UNCHANGED <<packetId, count, again>>
    /\ UNCHANGED <<xcfg, success, packetData, lastFrame, writes, rxByte, ended, result,
                   prev, startNak, wrote, eotWrites, eotAnswered, firstId, firstCount>>
    /\ UNCHANGED xrest

\* mutant: only an Ack ends the transmission well
EndOkAckOnly(r) == r = Ack

\* _endTransmission's verdict on the response to EOT (lines 389-407)
EndOk(r) == r = Ack \/ r = Nak

\* mutant: transfer() drops _endTransmission's value
TransferResultIgnoresEnd(ok, end) == ok

\* what transfer() returns, from its `success` and _endTransmission's value
\* (lines 520-526)
TransferResult(ok, end) == IF ~end THEN FALSE ELSE ok

\* _endTransmission writes EOT; when the write fails it returns False and so
\* does transfer() (lines 378-384, 520-526)
XSendEot ==
    /\ xpc = "eot"
    /\ \E ws \in SendDataRuns(<<EndOfTransmission>>, rtscts) :
         /\ writes' = ws
         /\ eotWrites' = eotWrites + Len(ws)
         /\ IF Sent(ws, 1)
            THEN xpc' = "eotResp" /\ UNCHANGED <<result, ended>>
            ELSE /\ xpc' = "done"
                 /\ ended' = "False"
                 /\ result' = TransferResult(success, FALSE)
    /\ wrote' = TRUE
    /\ UNCHANGED <<xcfg, packetId, count, success, packetData, again, lastFrame,
                   rxByte, response, prev, startNak, acked, fatal, pktFailed,
                   eotAnswered, firstId, firstCount>>
    /\ UNCHANGED xrest

\* _endTransmission has the value r of _getResponse(stopTimeout): a byte or
\* None; transfer() returns (lines 387-407, 520-526)
XEotResponse(r) ==
    /\ xpc = "eotResp"
    /\ response' = r
    /\ eotAnswered' = TRUE
    /\ xpc' = "done"
    /\ ended' = IF EndOk(r) THEN "True" ELSE "False"
    /\ result' = TransferResult(success, EndOk(r))
    /\ UNCHANGED <<xcfg, packetId, count, success, packetData, again, lastFrame,
                   writes, rxByte, prev, startNak, wrote, acked, fatal, pktFailed,
                   eotWrites, firstId, firstCount>>
    /\ UNCHANGED xrest

XNext ==
    \/ \E c \in XCalls : XTransfer(c)
    \/ \E b \in PeerBytes : XStartByte(b)
    \/ XStartTimeout
    \/ XLoop
    \/ XSendPacket
    \/ \E r \in PeerBytes \cup {None} : XPacketResponse(r)
    \/ XSendEot
    \/ \E r \in PeerBytes \cup {None} : XEotResponse(r)
    \/ XReturn

(***************************************************************************)
(* Xmodem: transfer() with self.packetSize set to any value                *)
(***************************************************************************)
\* packet sizes that are not in TransferSizes, and data for them
OtherSizes == {64, 2048}
OtherLens == {0, 1, 100, 1025}
XCallsOtherSize ==
    { [d |-> [len |-> n, seed |-> 5, mutable |-> m], ps |-> ps, rts |-> f] :
        n \in OtherLens, m \in BOOLEAN, ps \in OtherSizes, f \in BOOLEAN }

\* _sendPacket: getPacket raises ValueError for a chunk of more than 1024
\* bytes, and the exception leaves transfer() (lines 98, 425-428, 511)
XRaise ==
    /\ xpc = "send"
    /\ getPacket(packetData, packetId, data.mutable).raised
    /\ xpc' = "raised"
    /\ UNCHANGED <<xcfg, packetId, count, success, packetData, again, lastFrame, writes,
                   rxByte, response, ended, result, prev, startNak, wrote, acked, fatal,
                   pktFailed, eotWrites, eotAnswered, firstId, firstCount>>
    /\ UNCHANGED xrest

XNextAnySize ==
    \/ \E c \in XCallsOtherSize : XTransfer(c)
    \/ \E b \in PeerBytes : XStartByte(b)
    \/ XStartTimeout
    \/ XLoop
    \/ XSendPacket
    \/ XRaise
    \/ \E r \in PeerBytes \cup {None} : XPacketResponse(r)
    \/ XSendEot
    \/ \E r \in PeerBytes \cup {None} : XEotResponse(r)
    \/ XReturn

(***************************************************************************)
(* CTRL-AP and Mailbox: constants                                          *)
(***************************************************************************)
\* Mailbox.Request
Ping == 0
Dfu == 1
Convert == 2
\* Mailbox.Response
Unknown == 0
Ok == 1
Error == 2

\* timeouts, in seconds
WriteTimeout == 3
ResponseTimeout == 1
ClearTimeout == 0
\* range(10) of convert()
MaxPings == 10
\* readMailbox(length = 2)
ResponseLength == 2

(***************************************************************************)
(* Bounds of the mailbox model                                             *)
(***************************************************************************)
\* ticks of the clock per second
TicksPerSecond == 2
\* the clock of a writeMailbox / readMailbox call is followed this far
MaxClock == 12

\* the words the target may put into MailboxRxData
TargetWords == {Unknown, Ok, Error}

\* the arguments of dfu(): autoReboot
AutoReboots == {"None", "True", "False"}

(***************************************************************************)
(* Mailbox.Packet and the requests                                         *)
(***************************************************************************)
\* Packet.__init__: buffer = [type, length] + data
PacketBuffer(type, length, dat) == <<type, length>> \o dat

AutoRebootFlagNoneAsFalse(a) == IF a = "True" THEN 1 ELSE 0

\* int(autoReboot) of dfu(), None standing for True
AutoRebootFlag(a) == IF a = "None" \/ a = "True" THEN 1 ELSE 0

\* request.buffer of each public method
RequestBuffer(op, a) ==
    CASE op = "ping"    -> PacketBuffer(Ping, 0, <<>>)
      [] op = "dfu"     -> PacketBuffer(Dfu, 1, <<AutoRebootFlag(a)>>)
      [] op = "convert" -> PacketBuffer(Convert, 0, <<>>)

\* the time checks of waitMailboxRead / waitMailboxWritten (lines 166, 241)
\* and of writeMailbox / readMailbox (lines 193, 272)
WaitTimedOut(elapsed, limit) == elapsed >= limit
BudgetSpent(elapsed, limit) == elapsed >= limit

\* _sendRequest's value from a response that was read: makeFromBuffer, then
\* the type check (mailbox.py lines 145-155, 64-72)
DecodeErrorOnly(buffer) ==
    IF Len(buffer) < 2 THEN "False"
    ELSE IF buffer[1] = Error THEN "False"
    ELSE "True"

Decode(buffer) ==
    IF Len(buffer) < 2 THEN "False"
    ELSE IF buffer[1] # Ok THEN "False"
    ELSE "True"

\* _sendRequest's value when writeMailbox failed (mailbox.py lines 135-136)
WriteFailedAsFalse == "False"

WriteFailed == "None"

\* what readMailbox returns when a wait or its budget ran out (ctrlAp.py
\* lines 265-273)
ReadTimedOutShort == "values"

ReadTimedOut == "None"

\* _sendRequest's value when readMailbox returned None (mailbox.py lines 142-143)
ReadFailed == "None"

(***************************************************************************)
(* Mailbox: no call running, the mailbox registers empty                   *)
(***************************************************************************)
MInit ==
    /\ txFull = FALSE /\ txWord = 0 /\ rxFull = FALSE /\ rxWord = 0
    /\ mop = "none" /\ mpc = "idle" /\ request = <<>> /\ pings = 0
    /\ widx = 0 /\ clock = 0 /\ wnow = 0 /\ timeout = 0 /\ wstart = 0 /\ values = <<>>
    /\ sres = "running" /\ mret = FALSE
    /\ consumed = 0 /\ txWrites = <<>> /\ rxReads = <<>> /\ wrOk = "none" /\ rdOk = "none"
    /\ polled = None
    /\ convRes = "none" /\ pingOks = 0
    /\ stale = "no" /\ marg = "None" /\ convSent = "none"

\* _sendRequest(request) is entered: nothing of it observed yet
EnterSendRequest(buffer) ==
    /\ mpc' = "clear"
    /\ request' = buffer
    /\ sres' = "running"
    /\ widx' = 0 /\ clock' = 0 /\ wnow' = 0 /\ timeout' = 0 /\ wstart' = 0 /\ values' = <<>>
    /\ consumed' = 0 /\ txWrites' = <<>> /\ rxReads' = <<>> /\ wrOk' = "none" /\ rdOk' = "none"
    /\ polled' = None
    /\ stale' = IF rxFull THEN "pending" ELSE "no"

\* ping(), dfu(autoReboot) or convert() is called: the request is formed and
\* handed to _sendRequest (mailbox.py lines 169-175, 195-207, 224-232)
MCall(op, a) ==
    /\ mpc = "idle"
    /\ mop' = op
    /\ marg' = a
    /\ EnterSendRequest(RequestBuffer(op, a))
    /\ UNCHANGED <<mregs, pings, mret, convRes, pingOks, convSent>>
    /\ UNCHANGED mrest

\* _sendRequest: self._ctrlAp.clear().  clearTx reads MailboxTxData when
\* waitMailboxRead(0.0) does not find the word consumed; clearRx reads
\* MailboxRxData as long as readMailbox(timeout = 0.0), entered `e` ticks
\* before its time check, returns a word.  Then writeMailbox(timeout = 3.0)
\* starts its clock (ctrlAp.py lines 285-324, 187)
MClear ==
    /\ mpc = "clear"
    /\ txFull' = FALSE
    /\ UNCHANGED txWord
    /\ \E e \in 0..1 :
         IF rxFull /\ ~BudgetSpent(e, ClearTimeout * TicksPerSecond)
         THEN rxFull' = FALSE /\ rxReads' = Append(rxReads, rxWord) /\ stale' = "no"
         ELSE UNCHANGED <<rxFull, rxReads, stale>>
    /\ UNCHANGED rxWord
    /\ mpc' = "wrTop"
    /\ widx' = 1
    /\ clock' = 0
    /\ timeout' = WriteTimeout * TicksPerSecond
    /\ UNCHANGED <<mop, request, pings, wnow, wstart, values, sres, mret, consumed,
                   txWrites, wrOk, rdOk, polled, convRes, pingOks, marg, convSent>>
    /\ UNCHANGED mrest

DataReadNoWait(pending) == TRUE

\* waitMailboxRead: whether the status it read shows the word consumed
\* (ctrlAp.py lines 159-163)
DataRead(pending) == ~pending

AfterWriteReadsAnyway(ok) == "rdWait"

\* _sendRequest: where it goes on when writeMailbox has returned `ok`: to
\* readMailbox, or to its return (mailbox.py lines 134-139)
AfterWrite(ok) == IF ok THEN "rdWait" ELSE "sent"

\* writeMailbox returns `ok` to _sendRequest, which returns None or starts
\* readMailbox(length = 2, timeout = 1.0) and its clock (ctrlAp.py lines
\* 193-214, 262, mailbox.py lines 134-139)
WriteReturned(ok) ==
    /\ wrOk' = IF ok THEN "True" ELSE "False"
    /\ polled' = None
    /\ mpc' = AfterWrite(ok)
    /\ IF AfterWrite(ok) = "rdWait"
       THEN /\ clock' = 0
            /\ wstart' = 0
            /\ timeout' = ResponseTimeout * TicksPerSecond
            /\ UNCHANGED sres
       ELSE /\ sres' = WriteFailed
            /\ UNCHANGED <<clock, wstart, timeout>>

\* writeMailbox: the top of a round of its for loop; the budget check, then
\* the write of the word and the start of waitMailboxRead (ctrlAp.py lines
\* 189-200, 155)
MWriteTop ==
    /\ mpc = "wrTop"
    /\ IF BudgetSpent(clock, timeout)
       THEN /\ WriteReturned(FALSE)
            /\ UNCHANGED <<txFull, txWord, txWrites, wnow>>
       ELSE /\ txWord' = request[widx]
            /\ txFull' = TRUE
            /\ txWrites' = Append(txWrites, request[widx])
            /\ wnow' = clock
            /\ wstart' = clock
            /\ mpc' = "wrWait"
            /\ UNCHANGED <<wrOk, sres, polled, clock, timeout>>
    /\ UNCHANGED <<rxFull, rxWord, mop, request, pings, widx, values,
                   mret, consumed, rxReads, rdOk, convRes, pingOks, stale, marg, convSent>>
    /\ UNCHANGED mrest

\* waitMailboxRead inside writeMailbox: one round of its loop.  When the last
\* word was consumed writeMailbox returns True and readMailbox(length = 2,
\* timeout = 1.0) starts (ctrlAp.py lines 157-167, 200-214, 260-262)
MWritePoll ==
    /\ mpc = "wrWait"
    /\ IF DataRead(txFull)
       THEN IF widx < Len(request)
            THEN /\ timeout' = timeout - wnow
                 /\ widx' = widx + 1
                 /\ mpc' = "wrTop"
                 /\ UNCHANGED <<clock, wstart, wrOk, sres, polled>>
            ELSE /\ WriteReturned(TRUE)
                 /\ UNCHANGED widx
       ELSE IF WaitTimedOut(clock - wstart, timeout)
            THEN /\ WriteReturned(FALSE)
                 /\ UNCHANGED widx
            ELSE /\ polled' = clock
                 /\ UNCHANGED <<widx, clock, wstart, timeout, wrOk, sres, mpc>>
    /\ UNCHANGED <<mregs, mop, request, pings, wnow, values, mret, consumed, txWrites,
                   rxReads, rdOk, convRes, pingOks, stale, marg, convSent>>
    /\ UNCHANGED mrest

\* readMailbox: one round of waitMailboxWritten's loop and, when a word is
\* there, the budget check and the read of MailboxRxData; with the second
\* word _sendRequest has its value (ctrlAp.py lines 232-242, 264-283,
\* mailbox.py lines 139-155)
MReadPoll ==
    /\ mpc = "rdWait"
    /\ IF rxFull
       THEN IF BudgetSpent(clock, timeout)
            THEN /\ rdOk' = ReadTimedOut
                 /\ sres' = ReadFailed
                 /\ mpc' = "sent"
                 /\ polled' = None
                 /\ UNCHANGED <<rxFull, rxReads, values, timeout, wstart, stale>>
            ELSE /\ timeout' = timeout - clock
                 /\ stale' = IF stale = "pending" THEN "taken" ELSE stale
                 /\ rxFull' = FALSE
                 /\ rxReads' = Append(rxReads, rxWord)
                 /\ values' = Append(values, rxWord)
                 /\ wstart' = clock
                 /\ IF Len(values) + 1 = ResponseLength
                    THEN /\ rdOk' = "values"
                         /\ sres' = Decode(Append(values, rxWord))
                         /\ mpc' = "sent"
                         /\ polled' = None
                    ELSE UNCHANGED <<rdOk, sres, mpc, polled>>
       ELSE IF WaitTimedOut(clock - wstart, timeout)
            THEN /\ rdOk' = ReadTimedOut
                 /\ sres' = ReadFailed
                 /\ mpc' = "sent"
                 /\ polled' = None
                 /\ UNCHANGED <<rxFull, rxReads, values, timeout, wstart, stale>>
            ELSE /\ polled' = clock
                 /\ UNCHANGED <<rxFull, rxReads, values, timeout, wstart, rdOk, sres, mpc,
                                stale>>
    /\ UNCHANGED <<txFull, txWord, rxWord, mop, request, pings, widx, clock, wnow, mret,
                   consumed, txWrites, wrOk, convRes, pingOks, marg, convSent>>
    /\ UNCHANGED mrest

\* time passes while writeMailbox or readMailbox polls a status register
MTick ==
    /\ mpc \in {"wrWait", "rdWait"}
    /\ clock < MaxClock
    /\ clock' = clock + 1
    /\ UNCHANGED <<mregs, mop, mpc, request, pings, widx, wnow, timeout, wstart, values,
                   sres, mret, mobs, convRes, pingOks, stale, marg, convSent>>
    /\ UNCHANGED mrest

\* the target reads the pending debugger->CPU word
TargetConsume ==
    /\ txFull
    /\ txFull' = FALSE
    /\ consumed' = IF Len(txWrites) > 0 THEN consumed + 1 ELSE consumed
    /\ UNCHANGED <<txWord, rxFull, rxWord, mop, mpc, request, pings, widx, clock, wnow,
                   timeout, wstart, values, sres, mret, txWrites, rxReads, wrOk, rdOk,
                   polled, convRes, pingOks, stale, marg, convSent>>
    /\ UNCHANGED mrest

\* the target puts a word into the empty CPU->debugger register
TargetWrite(w) ==
    /\ ~rxFull
    /\ mpc \in {"clear", "wrTop", "wrWait", "rdWait"}
    /\ rxFull' = TRUE
    /\ rxWord' = w
    /\ UNCHANGED <<txFull, txWord, mop, mpc, request, pings, widx, clock, wnow, timeout,
                   wstart, values, sres, mret, mobs, convRes, pingOks, stale, marg, convSent>>
    /\ UNCHANGED mrest

\* ping() and dfu(): the method's value from _sendRequest's (mailbox.py lines
\* 175-178, 207-210)
AcknowledgedUnlessNone(r) == r # "None"

Acknowledged(r) == r = "True"

\* convert(): whether its own request went as a conversion does, so that
\* the pings follow (mailbox.py lines 232-233)
ConvertStartedFalsy(r) == r \in {"None", "False"}

ConvertStarted(r) == r = "None"

\* _sendRequest has returned to ping() or dfu(), which returns
MDone ==
    /\ mpc = "sent"
    /\ mop \in {"ping", "dfu"}
    /\ mret' = Acknowledged(sres)
    /\ mpc' = "returned"
    /\ UNCHANGED <<mregs, mop, request, pings, widx, clock, wnow, timeout, wstart,
                   values, sres, mobs, convRes, pingOks, stale, marg, convSent>>
    /\ UNCHANGED mrest

\* _sendRequest has returned to convert(): from its own request, or from the
\* ping() convert() called last (mailbox.py lines 232-241, 169-178)
MConvertStep ==
    /\ mpc = "sent"
    /\ mop = "convert"
    /\ IF convRes = "none"
       THEN /\ convRes' = sres
            /\ convSent' = wrOk
            /\ IF ~ConvertStarted(sres)
               THEN /\ mret' = FALSE
                    /\ mpc' = "returned"
                    /\ UNCHANGED <<request, pings, pingOks, widx, clock, wnow, timeout,
                                   wstart, values, sres, mobs, stale>>
               ELSE /\ pings' = 1
                    /\ EnterSendRequest(RequestBuffer("ping", "None"))
                    /\ UNCHANGED <<mret, pingOks>>
       ELSE /\ UNCHANGED <<convRes, convSent>>
            /\ pingOks' = IF sres = "True" THEN pingOks + 1 ELSE pingOks
            /\ IF Acknowledged(sres)
               THEN /\ mret' = TRUE
                    /\ mpc' = "returned"
                    /\ UNCHANGED <<request, pings, widx, clock, wnow, timeout, wstart,
                                   values, sres, mobs, stale>>
               ELSE IF pings < MaxPings
                    THEN /\ pings' = pings + 1
                         /\ EnterSendRequest(RequestBuffer("ping", "None"))
                         /\ UNCHANGED mret
                    ELSE /\ mret' = FALSE
                         /\ mpc' = "returned"
                         /\ UNCHANGED <<request, pings, widx, clock, wnow, timeout,
                                        wstart, values, sres, mobs, stale>>
    /\ UNCHANGED <<mregs, mop, marg>>
    /\ UNCHANGED mrest

\* the method has returned `mret`: its locals are gone, the registers stay
MReturn ==
    /\ mpc = "returned"
    /\ mop' = "none" /\ mpc' = "idle" /\ request' = <<>> /\ pings' = 0
    /\ widx' = 0 /\ clock' = 0 /\ wnow' = 0 /\ timeout' = 0 /\ wstart' = 0 /\ values' = <<>>
    /\ sres' = "running" /\ mret' = FALSE
    /\ consumed' = 0 /\ txWrites' = <<>> /\ rxReads' = <<>> /\ wrOk' = "none" /\ rdOk' = "none"
    /\ polled' = None
    /\ convRes' = "none" /\ pingOks' = 0
    /\ stale' = "no" /\ marg' = "None" /\ convSent' = "none"
    /\ UNCHANGED mregs
    /\ UNCHANGED mrest

MNext ==
    \/ MCall("ping", "None")
    \/ \E a \in AutoReboots : MCall("dfu", a)
    \/ MCall("convert", "None")
    \/ MClear
    \/ MWriteTop
    \/ MWritePoll
    \/ MReadPoll
    \/ MTick
    \/ TargetConsume
    \/ \E w \in TargetWords : TargetWrite(w)
    \/ MDone
    \/ MConvertStep
    \/ MReturn

(***************************************************************************)
(* Xmodem.Packet: the class methods called on their own                    *)
(***************************************************************************)
\* lengths of the payloads handed to getPacket
PayloadLens == {0, 1, 10, 127, 128, 129, 1023, 1024, 1025}

\* the payloads: a run of bytes of each length, and ten bytes of 'A'
Payloads ==
    { DataSlice([len |-> n, seed |-> 5, mutable |-> FALSE], 0, n) : n \in PayloadLens }
        \cup { [i \in 1..10 |-> 65] }

\* the packet IDs
PacketIds == 0..(ByteMod - 1)

NoPacket == [raised |-> FALSE, frame |-> <<>>, buffer |-> <<>>]

\* no class method is called
PIdle ==
    /\ payload = <<>> /\ payloadMutable = FALSE /\ payloadId = getFirstPacketId
    /\ packet = NoPacket /\ inverseId = None /\ nextId = None

\* the arguments of the calls are chosen
PInit ==
    /\ payload \in Payloads
    /\ payloadMutable \in BOOLEAN
    /\ payloadId \in PacketIds
    /\ packet = NoPacket /\ inverseId = None /\ nextId = None

\* Packet.getPacket(packetData = payload, packetId = payloadId)
PGetPacket ==
    /\ packet = NoPacket
    /\ packet' = getPacket(payload, payloadId, payloadMutable)
    /\ UNCHANGED <<payload, payloadMutable, payloadId, inverseId, nextId>>
    /\ UNCHANGED prest

\* Packet.getInversePacketId(packetId = payloadId), called after getPacket
PGetInversePacketId ==
    /\ packet # NoPacket
    /\ inverseId = None
    /\ inverseId' = getInversePacketId(payloadId)
    /\ UNCHANGED <<payload, payloadMutable, payloadId, packet, nextId>>
    /\ UNCHANGED prest

\* Packet.getNextPacketId(packetId = payloadId), called after getPacket
PGetNextPacketId ==
    /\ packet # NoPacket
    /\ nextId = None
    /\ nextId' = getNextPacketId(payloadId)
    /\ UNCHANGED <<payload, payloadMutable, payloadId, packet, inverseId>>
    /\ UNCHANGED prest

PNext ==
    \/ PGetPacket
    \/ PGetInversePacketId
    \/ PGetNextPacketId

(***************************************************************************)
(* CtrlAp: eraseAll, disableEraseProtect and _waitAllErased                *)
(***************************************************************************)
\* CtrlAp.Registers
EraseAll == 4
EraseAllStatus == 8
EraseProtectDisable == 28

\* range(30) of _waitAllErased
MaxErasePolls == 30

\* what EraseAllStatus may read: 0 (ready), 1 (busy), and another value
EraseStatuses == {0, 1, 2}

\* the keys handed to disableEraseProtect
EraseKeys == {0, 1, 2147483647}

EInit ==
    /\ eraseStatus = 0 /\ eraseWrites = <<>>
    /\ eop = "none" /\ epc = "idle" /\ ei = 0 /\ eret = FALSE
    /\ epolls = 0 /\ efirst = None /\ ezero = FALSE

\* eraseAll() / disableEraseProtect(key): the register write, the read of
\* Reset that flushes it, and the entry of _waitAllErased (ctrlAp.py lines
\* 113-118, 134-139)
ECall(op, key) ==
    /\ epc = "idle"
    /\ eop' = op
    /\ eraseWrites' = IF op = "eraseAll" THEN <<<<EraseAll, 1>>>>
                                         ELSE <<<<EraseProtectDisable, key>>>>
    /\ epc' = "poll"
    /\ ei' = 0
    /\ UNCHANGED <<eraseStatus, eret, epolls, efirst, ezero>>
    /\ UNCHANGED erest

\* the device changes EraseAllStatus
EDevice(v) ==
    /\ epc = "poll"
    /\ v # eraseStatus
    /\ eraseStatus' = v
    /\ UNCHANGED <<eraseWrites, eop, epc, ei, eret, epolls, efirst, ezero>>
    /\ UNCHANGED erest

ErasePollNoFastFail(i, status) ==
    IF status = 0 THEN "True" ELSE "wait"

\* _waitAllErased: what one round of its loop decides from the status it read
\* (ctrlAp.py lines 86-96)
ErasePoll(i, status) ==
    IF i = 0 /\ status # 1 THEN "False"
    ELSE IF status = 0 THEN "True"
    ELSE "wait"

\* _waitAllErased: one round of its loop, with the sleep and, after the last
\* round, the return (ctrlAp.py lines 82-99)
EPoll ==
    /\ epc = "poll"
    /\ epolls' = epolls + 1
    /\ efirst' = IF epolls = 0 THEN eraseStatus ELSE efirst
    /\ ezero' = (ezero \/ (epolls > 0 /\ eraseStatus = 0))
    /\ CASE ErasePoll(ei, eraseStatus) = "False" ->
                eret' = FALSE /\ epc' = "returned" /\ UNCHANGED ei
         [] ErasePoll(ei, eraseStatus) = "True" ->
                eret' = TRUE /\ epc' = "returned" /\ UNCHANGED ei
         [] OTHER ->
                IF ei + 1 < MaxErasePolls
                THEN ei' = ei + 1 /\ UNCHANGED <<eret, epc>>
                ELSE eret' = FALSE /\ epc' = "returned" /\ UNCHANGED ei
    /\ UNCHANGED <<eraseStatus, eraseWrites, eop>>
    /\ UNCHANGED erest

\* the method has returned `eret`: its locals are gone, the register stays
EReturn ==
    /\ epc = "returned"
    /\ eop' = "none" /\ epc' = "idle" /\ ei' = 0 /\ eret' = FALSE
    /\ eraseWrites' = <<>> /\ epolls' = 0 /\ efirst' = None /\ ezero' = FALSE
    /\ UNCHANGED eraseStatus
    /\ UNCHANGED erest

ENext ==
    \/ ECall("eraseAll", 0)
    \/ \E key \in EraseKeys : ECall("disableEraseProtect", key)
    \/ \E v \in EraseStatuses : EDevice(v)
    \/ EPoll
    \/ EReturn

(***************************************************************************)
(* Ahb: the port                                                           *)
(***************************************************************************)
\* bytes of a word: address += 4
WordBytes == 4

\* the auto-increment of TransferAddress stays inside a block of this size
BlockBytes == 1024

\* blocks of memory behind the port
MemBlocks == 3

\* how many ControlStatus reads of one _waitReady are followed
MaxPolls == 3

MemWords == (MemBlocks * BlockBytes) \div WordBytes

\* the word at each word number before any write
InitMem == [w \in 0..(MemWords - 1) |-> (7 * w + 3) % 251]

\* TransferAddress after a data access at `a`: the next word of the same
\* block, the first word after the last
Wrapped(a) == (a \div BlockBytes) * BlockBytes + ((a + WordBytes) % BlockBytes)

\* TransferAddress after a data access under ControlStatus `c`
Advance(a, c) == IF c.addrInc = 1 THEN Wrapped(a) ELSE a

\* ControlStatus at reset, by the fields _configure handles: bits 0-1
\* (size), bits 4-5 (address increment), bit 6 (enabled), bit 30
ResetCsw == [size |-> 0, addrInc |-> 0, enabled |-> FALSE, bit30 |-> FALSE]

BoolArg(b) == IF b THEN 1 ELSE 0

\* _configure(size, autoInc, secure): newValue from currentValue; an
\* argument that is None leaves its field alone (ahb.py lines 94-126)
NewCsw(c, size, autoInc, sec) ==
    [enabled |-> TRUE,
     size    |-> IF size = None THEN c.size
                 ELSE IF size = 16 THEN 1
                 ELSE IF size = 32 THEN 2
                 ELSE 0,
     addrInc |-> IF autoInc = None THEN c.addrInc
                 ELSE IF autoInc = 1 THEN 1
                 ELSE 0,
     bit30   |-> IF sec = None THEN c.bit30
                 ELSE IF sec = 1 THEN FALSE
                 ELSE TRUE]

\* _setDefaultConfig: _configure(size = 32, autoInc = True, secure = self.secure)
DefaultCsw(c, sec) == NewCsw(c, 32, 1, BoolArg(sec))

NoConfigure == [args |-> <<>>, read |-> ResetCsw, wrote |-> FALSE, repeat |-> FALSE]

ConfigureWritesAlways(new, current) == TRUE

\* _configure: whether ControlStatus is written (ahb.py lines 128-132)
ConfigureWrites(new, current) == new # current

\* _configure(size, autoInc, secure): the read of ControlStatus and, when
\* the new value is another, the write (ahb.py lines 92-134)
Configure(size, autoInc, sec) ==
    /\ csw' = IF ConfigureWrites(NewCsw(csw, size, autoInc, sec), csw)
              THEN NewCsw(csw, size, autoInc, sec)
              ELSE csw
    /\ cfg' = [args   |-> <<size, autoInc, sec>>,
               read   |-> csw,
               wrote  |-> ConfigureWrites(NewCsw(csw, size, autoInc, sec), csw),
               repeat |-> cfg.args = <<size, autoInc, sec>>]

\* the arguments of _configure: None, or a value
ConfigureSizes == {None, 8, 32}
ConfigureFlags == {None, 0, 1}

(***************************************************************************)
(* Ahb: read() and write()                                                 *)
(***************************************************************************)
\* the arguments of the calls: word-aligned addresses around the first
\* block boundary, lengths that stay in a block and that cross two
ACallAddresses == {0, BlockBytes - 2 * WordBytes, BlockBytes - WordBytes, BlockBytes}
ACallLengths == {0, 1, 3, BlockBytes \div WordBytes + 4}

\* the words write() is handed: none of them is in memory before
WriteValues(n) == [i \in 1..n |-> 1000 + i]

\* after Ahb.__init__: Secure, the default configuration set
AInit ==
    /\ csw = DefaultCsw(ResetCsw, TRUE)
    /\ tar = 0
    /\ mem = InitMem
    /\ secure = TRUE
    /\ aop = "none" /\ apc = "idle"
    /\ address = 0 /\ avalues = <<>> /\ alength = 0 /\ aflush = FALSE /\ ai = 0
    /\ aret = FALSE
    /\ address0 = 0 /\ tarWrites = <<>>
    /\ cfg = NoConfigure
    /\ atail = <<>> /\ busy = FALSE /\ apolls = 0 /\ allFailed = FALSE

\* setSecureState(secure) (ahb.py line 61)
ASetSecureState(b) ==
    /\ apc = "idle"
    /\ secure # b
    /\ secure' = b
    /\ UNCHANGED <<csw, tar, mem, aop, apc, address, avalues, alength, aflush, ai, aret,
                   address0, tarWrites, cfg, atail, busy, apolls, allFailed>>
    /\ UNCHANGED arest

\* _configure(size, autoInc, secure) is called on its own
AConfigureCall(size, autoInc, sec) ==
    /\ apc = "idle"
    /\ Configure(size, autoInc, sec)
    /\ UNCHANGED <<tar, mem, secure, aop, apc, address, avalues, alength, aflush, ai, aret,
                   address0, tarWrites, atail, busy, apolls, allFailed>>
    /\ UNCHANGED arest

\* the port is reset: ControlStatus is changed from outside
APortReset ==
    /\ apc = "idle"
    /\ csw # ResetCsw
    /\ csw' = ResetCsw
    /\ cfg' = NoConfigure
    /\ UNCHANGED <<tar, mem, secure, aop, apc, address, avalues, alength, aflush, ai, aret,
                   address0, tarWrites, atail, busy, apolls, allFailed>>
    /\ UNCHANGED arest

\* read(address, length) is called (ahb.py line 154)
ARead(a, n) ==
    /\ apc = "idle"
    /\ aop' = "read"
    /\ apc' = "ready"
    /\ address' = a /\ address0' = a
    /\ alength' = n
    /\ avalues' = <<>>
    /\ ai' = 0
    /\ atail' = <<>>
    /\ UNCHANGED <<csw, tar, mem, secure, aflush, aret, tarWrites, cfg, busy, apolls,
                   allFailed>>
    /\ UNCHANGED arest

\* write(address, values, flush) is called (ahb.py line 184)
AWrite(a, v, f) ==
    /\ apc = "idle"
    /\ aop' = "write"
    /\ apc' = "ready"
    /\ address' = a /\ address0' = a
    /\ avalues' = v
    /\ aflush' = f
    /\ ai' = 0
    /\ atail' = <<>>
    /\ UNCHANGED <<csw, tar, mem, secure, alength, aret, tarWrites, cfg, busy, apolls,
                   allFailed>>
    /\ UNCHANGED arest

\* where a call goes on after each of its _waitReady calls
AfterReady(pc) ==
    CASE pc = "ready"      -> "config"
      [] pc = "readReady"  -> "readData"
      [] pc = "flushReady" -> "flush"

\* the positions of a call inside _waitReady
Waiting == {"ready", "readReady", "flushReady"}

AfterExceptionGivesUp(pc) == AfterReady(pc)

\* _waitReady: `except Exception: pass`, and the loop goes round again
\* (ahb.py lines 145-152)
AfterException(pc) == pc

\* _waitReady: a read of ControlStatus that raises is tried again; one that
\* returns ends the wait, bit 7 set or not, as (status & (1 << 7)) is never 1
\* (ahb.py lines 145-152)
AWaitReady(raises, bit7) ==
    /\ apc \in Waiting
    /\ raises => apolls < MaxPolls
    /\ apc' = IF raises THEN AfterException(apc)
              ELSE IF (IF bit7 THEN 128 ELSE 0) # 1 THEN AfterReady(apc)
              ELSE apc
    /\ apolls' = IF apc' = apc THEN apolls + 1 ELSE 0
    /\ allFailed' = raises
    /\ busy' = IF raises THEN busy ELSE bit7
    /\ atail' = IF apc' = apc THEN atail ELSE Append(atail, [op |-> "wait", v |-> 0])
    /\ UNCHANGED <<csw, tar, mem, secure, aop, address, avalues, alength, aflush, ai, aret,
                   address0, tarWrites, cfg>>
    /\ UNCHANGED arest

\* the first data round of read(), or its return when length is 0
ReadLoop(n, i) == IF i < n THEN "readReady" ELSE "returned"

\* _setDefaultConfig: ControlStatus is read and, when the new value differs,
\* written; then TransferAddress is set to the starting address (ahb.py
\* lines 92-134, 169-174, 201-204)
AConfigure ==
    /\ apc = "config"
    /\ Configure(32, 1, BoolArg(secure))
    /\ tar' = address
    /\ tarWrites' = Append(tarWrites, address)
    /\ apc' = IF aop = "read" THEN ReadLoop(alength, 0) ELSE "writeData"
    /\ atail' = <<>>
    /\ UNCHANGED <<mem, secure, aop, address, avalues, alength, aflush, ai, aret, address0,
                   busy, apolls, allFailed>>
    /\ UNCHANGED arest

\* read(): one read of DataReadWrite, after its _waitReady (ahb.py lines
\* 177-182)
AReadData ==
    /\ apc = "readData"
    /\ avalues' = Append(avalues, mem[tar \div WordBytes])
    /\ tar' = Advance(tar, csw)
    /\ ai' = ai + 1
    /\ apc' = ReadLoop(alength, ai + 1)
    /\ atail' = <<>>
    /\ UNCHANGED <<csw, mem, secure, aop, address, alength, aflush, aret, address0,
                   tarWrites, cfg, busy, apolls, allFailed>>
    /\ UNCHANGED arest

RearmNever(a) == FALSE

\* write(): whether TransferAddress is set again after a word (ahb.py line 216)
Rearm(a) == (a % BlockBytes) = 0

WriteEndWithoutFlush(flush) == "returned"

\* write(): where it goes on after its loop: to the flush, or to its return
\* (ahb.py lines 219-225)
WriteEnd(flush) == IF flush THEN "flushReady" ELSE "returned"

\* write(): one round of its loop, or, with no value left, the way to the
\* flush or the return (ahb.py lines 206-225)
AWriteData ==
    /\ apc = "writeData"
    /\ IF ai < Len(avalues)
       THEN /\ mem' = [mem EXCEPT ![tar \div WordBytes] = avalues[ai + 1]]
            /\ address' = address + WordBytes
            /\ IF Rearm(address + WordBytes)
               THEN /\ tar' = address + WordBytes
                    /\ tarWrites' = Append(tarWrites, address + WordBytes)
                    /\ atail' = <<[op |-> "tar", v |-> address + WordBytes]>>
               ELSE /\ tar' = Advance(tar, csw)
                    /\ atail' = <<>>
                    /\ UNCHANGED tarWrites
            /\ ai' = ai + 1
            /\ UNCHANGED <<apc, aret>>
       ELSE /\ apc' = WriteEnd(aflush)
            /\ aret' = IF WriteEnd(aflush) = "returned" THEN TRUE ELSE aret
            /\ UNCHANGED <<mem, address, tar, tarWrites, ai, atail>>
    /\ UNCHANGED <<csw, secure, aop, avalues, alength, aflush, address0, cfg, busy, apolls,
                   allFailed>>
    /\ UNCHANGED arest

\* write(): the flush, after its _waitReady (ahb.py lines 220-225)
AFlush ==
    /\ apc = "flush"
    /\ tar' = address
    /\ tarWrites' = Append(tarWrites, address)
    /\ atail' = Append(atail, [op |-> "tar", v |-> address])
    /\ aret' = TRUE
    /\ apc' = "returned"
    /\ UNCHANGED <<csw, mem, secure, aop, address, avalues, alength, aflush, ai, address0,
                   cfg, busy, apolls, allFailed>>
    /\ UNCHANGED arest

ANext ==
    \/ \E b \in BOOLEAN : ASetSecureState(b)
    \/ \E a \in ACallAddresses, n \in ACallLengths : ARead(a, n)
    \/ \E a \in ACallAddresses, n \in ACallLengths, f \in BOOLEAN :
           AWrite(a, WriteValues(n), f)
    \/ \E raises \in BOOLEAN, bit7 \in BOOLEAN : AWaitReady(raises, bit7)
    \/ AConfigure
    \/ AReadData
    \/ AWriteData
    \/ AFlush

\* _configure called on its own, any number of times, before a short read()
\* or write()
ShortCallLengths == {0, 1}

AConfigureNext ==
    \/ \E b \in BOOLEAN : ASetSecureState(b)
    \/ \E size \in ConfigureSizes, autoInc \in ConfigureFlags, sec \in ConfigureFlags :
           AConfigureCall(size, autoInc, sec)
    \/ APortReset
    \/ \E a \in ACallAddresses, n \in ShortCallLengths : ARead(a, n)
    \/ \E a \in ACallAddresses, n \in ShortCallLengths, f \in BOOLEAN :
           AWrite(a, WriteValues(n), f)
    \/ \E raises \in BOOLEAN, bit7 \in BOOLEAN : AWaitReady(raises, bit7)
    \/ AConfigure
    \/ AReadData
    \/ AWriteData
    \/ AFlush

(***************************************************************************)
(* The specifications                                                      *)
(***************************************************************************)
Init == XInit /\ MInit /\ PIdle /\ EInit /\ AInit

SpecXmodem == Init /\ [][XNext]_vars

SpecXmodemAnySize == Init /\ [][XNextAnySize]_vars

SpecMailbox == Init /\ [][MNext]_vars

PacketInit == XInit /\ MInit /\ PInit /\ EInit /\ AInit

SpecPacket == PacketInit /\ [][PNext]_vars

SpecErase == Init /\ [][ENext]_vars

SpecAhb == Init /\ [][ANext]_vars

SpecAhbConfigure == Init /\ [][AConfigureNext]_vars

(***************************************************************************)
(* Xmodem: properties                                                      *)
(***************************************************************************)
\* number of packetSize-byte chunks the data splits into
NumChunks(d, ps) == (d.len + ps - 1) \div ps

\* C1: transfer() returns True exactly when the initial Nak was received,
\* every chunk of the data was answered with Ack, and the response to the
\* final EOT was Ack or Nak; in every other run it returns False.
C1_TransferResult ==
    xpc = "done" =>
        (result <=> /\ startNak
                    /\ acked = NumChunks(data, packetSize)
                    /\ eotAnswered
                    /\ response \in {Ack, Nak})

\* a three-chunk transfer has returned True on a Nak to the final EOT
C1_Witness ==
    xpc = "done" /\ result /\ acked = 3 /\ eotAnswered /\ response = Nak

\* C2: a Nak to a data frame sends _sendPacket round again with the same
\* packet ID and data offset, the frame then sent is byte for byte the frame
\* sent before, and the packet ID and the offset change only on an Ack.
C2_NakResendsSameFrame ==
    [][ /\ (xpc = "pktResp" /\ response' = Nak) =>
               (xpc' = "send" /\ packetId' = packetId /\ count' = count)
        /\ (xpc = "send" /\ again) =>
               (lastFrame' = lastFrame /\ packetId' = packetId /\ count' = count)
        /\ (xpc \in {"send", "pktResp"} /\ (packetId' # packetId \/ count' # count)) =>
               response' = Ack ]_vars

\* a later chunk of a bytearray has been sent again after a Nak
C2_Witness ==
    xpc = "pktResp" /\ again /\ response = Nak /\ acked >= 1 /\ data.mutable

\* C3: once a data frame was answered with a byte that is neither Ack nor
\* Nak, or with no byte in time, no data frame is sent any more (neither that
\* frame again nor a later chunk: the only write left is the EOT) and
\* transfer() returns False.
C3_FatalResponseEnds ==
    [][ fatal' =>
          /\ xpc' \in {"eot", "eotResp", "done"}
          /\ (xpc' = "done" => ~result')
          /\ fatal => /\ lastFrame' = lastFrame /\ count' = count /\ acked' = acked
                      /\ (writes' # writes => writes'[1].data = <<EndOfTransmission>>) ]_vars

\* a transfer whose second frame got a fatal response has returned False,
\* although the EOT was acknowledged
C3_Witness ==
    xpc = "done" /\ fatal /\ acked = 1 /\ response = Ack /\ ~result

\* C4: the k-th chunk (k from 0) is framed with packet ID (1 + k) mod 256:
\* the ID is 1 plus the number of Acks so far, modulo 256, and the frame
\* awaiting its response carries that ID and the chunk at offset k * packetSize.
C4_PacketIds ==
    /\ xpc # "idle" => packetId = (1 + acked) % 256
    /\ xpc = "pktResp" =>
         LET chunk == DataSlice(data, acked * packetSize, (acked + 1) * packetSize)
         IN  /\ count = acked * packetSize
             /\ lastFrame[2] = (1 + acked) % 256
             /\ SubSeq(lastFrame, 4, 3 + Len(chunk)) = chunk

\* the 256th chunk awaits its response, framed with the wrapped ID 0
C4_Witness ==
    xpc = "pktResp" /\ acked = 255 /\ lastFrame[2] = 0 /\ packetId = 0

\* C5: nothing is written to the device before the initial Nak was
\* received, and a transfer() that did not receive it returns False having
\* written nothing.
C5_NothingWrittenBeforeNak ==
    /\ wrote => startNak
    /\ (xpc = "done" /\ ~startNak) => (~result /\ ~wrote)

\* transfer() has returned False on startTimeout without a write
C5_Witness ==
    xpc = "done" /\ ~startNak /\ response = None /\ ~wrote /\ ~result

\* C6: _endTransmission writes the one byte EOT in exactly one device.write
\* and returns True exactly when the response it then got is Ack or Nak; a Nak
\* leaves it at that one write.
C6_EndTransmission ==
    /\ xpc = "eotResp" =>
         (eotWrites = 1 /\ writes = <<[data |-> <<4>>, accepted |-> 1]>>)
    /\ (xpc = "done" /\ ended # "notCalled") =>
         /\ eotWrites = 1
         /\ Len(writes) = 1 /\ writes[1].data = <<4>>
         /\ (ended = "True" <=> (eotAnswered /\ response \in {Ack, Nak}))

\* _endTransmission has returned True on a Nak, after one write of EOT
C6_Witness ==
    xpc = "done" /\ ended = "True" /\ response = Nak /\ eotWrites = 1

\* C7: every transfer() starts from packet ID 1 and data offset 0, whatever
\* an earlier transfer() on the object left behind.
C7_FreshStart ==
    /\ xpc = "start" => (packetId = 1 /\ count = 0)
    /\ firstId \in {None, 1}
    /\ firstCount \in {None, 0}

\* a transfer() called on an object whose previous transfer() failed with
\* its packet ID advanced has sent its first frame with ID 1 from offset 0
C7_Witness ==
    prev = "afterFalse" /\ firstId = 1 /\ firstCount = 0 /\ acked >= 1

(***************************************************************************)
(* Mailbox: properties                                                     *)
(***************************************************************************)
\* C8: _sendRequest returns one of True, False, None; it returns True
\* exactly when the target consumed every word of the request, two response
\* words were read from MailboxRxData and the first of them is Response.Ok;
\* the response [1, 0] gives True and the response [2, 0] gives False.
C8_SendRequestResult ==
    mpc = "sent" =>
        /\ sres \in {"True", "False", "None"}
        /\ sres = "True" <=> /\ consumed = Len(request)
                             /\ Len(rxReads) = ResponseLength
                             /\ rxReads[1] = Ok
        /\ rxReads = <<Ok, 0>> => sres = "True"
        /\ rxReads = <<Error, 0>> => sres = "False"

C8_Witness ==
    /\ mpc = "sent"
    /\ sres = "True"
    /\ rxReads = <<Ok, 0>>
    /\ Len(request) = 3

\* C9: _sendRequest returns None exactly when writeMailbox returned False or
\* readMailbox returned None; writeMailbox returns True only with every word
\* consumed; after a failed write no word is read from MailboxRxData; and a
\* response of two words whose first is not Response.Ok gives False.
C9_SendRequestNone ==
    mpc = "sent" =>
        /\ sres = "None" <=> (wrOk = "False" \/ rdOk = "None")
        /\ wrOk \in {"True", "False"}
        /\ wrOk = "True" => consumed = Len(request)
        /\ wrOk = "False" => rxReads = <<>> /\ rdOk = "none"
        /\ rdOk = "None" => Len(rxReads) < ResponseLength
        /\ (Len(rxReads) = ResponseLength /\ rxReads[1] # Ok) => sres = "False"

C9_Witness ==
    /\ mpc = "sent"
    /\ sres = "None"
    /\ wrOk = "False"
    /\ txFull
    /\ rxFull

\* C10: convert() returns True exactly when the _sendRequest of its Convert
\* request returned None and a ping() after it returned True; it calls
\* ping() at most 10 times and not again after one returned True; when the
\* Convert request returned True or False it returns False with no ping()
\* called.
C10_Convert ==
    /\ pings <= MaxPings
    /\ pingOks <= 1
    /\ (mop = "convert" /\ mpc = "returned") =>
        /\ mret <=> (convRes = "None" /\ pingOks = 1)
        /\ convRes # "None" => (pings = 0 /\ ~mret)
        /\ (convRes = "None" /\ ~mret) => pings = MaxPings

C10_Witness ==
    /\ mop = "convert"
    /\ mpc = "returned"
    /\ mret
    /\ convRes = "None"
    /\ pings = MaxPings

\* C11: ping() and dfu() return True exactly when their _sendRequest
\* returned True, so False both for a response that is not Ok and for no
\* response; the words they have written to MailboxTxData are the words of
\* the one request, each at most once, in order.
C11_PingDfuResult ==
    (mop \in {"ping", "dfu"} /\ mpc = "returned") =>
        /\ mret <=> sres = "True"
        /\ sres \in {"False", "None"} => ~mret
        /\ Len(txWrites) <= Len(request)
        /\ txWrites = SubSeq(request, 1, Len(txWrites))

C11_Witness ==
    /\ mop = "dfu"
    /\ mpc = "returned"
    /\ ~mret
    /\ sres = "False"
    /\ txWrites = request

(***************************************************************************)
(* Xmodem.Packet: properties                                               *)
(***************************************************************************)
\* byte i (from 1) of the payload region of a frame that carries p
Filled(p, i) == IF i <= Len(p) THEN p[i] ELSE 255

\* the plain sum of s[lo..hi]
RECURSIVE SumRange(_, _, _)
SumRange(s, lo, hi) ==
    IF lo > hi THEN 0
    ELSE IF lo = hi THEN s[lo]
    ELSE SumRange(s, lo, (lo + hi) \div 2) + SumRange(s, (lo + hi) \div 2 + 1, hi)

\* C12: for a payload of at most 128 bytes and an ID in 0..255, getPacket
\* returns 132 bytes: SOH, the ID, 255 - ID, the payload filled up to 128
\* bytes with 0xFF, and one checksum byte; ten bytes of 'A' with ID 1 give
\* 132 bytes with second byte 1 and third byte 254.
C12_SmallFrame ==
    (packet # NoPacket /\ Len(payload) <= 128) =>
        /\ ~packet.raised
        /\ Len(packet.frame) = 132
        /\ packet.frame[1] = 1
        /\ packet.frame[2] = payloadId
        /\ packet.frame[3] = 255 - payloadId
        /\ \A i \in 1..128 : packet.frame[3 + i] = Filled(payload, i)
        /\ packet.frame[132] \in 0..255
        /\ (payload = [i \in 1..10 |-> 65] /\ payloadId = 1) =>
               (packet.frame[2] = 1 /\ packet.frame[3] = 254)

C12_Witness ==
    /\ packet # NoPacket
    /\ payload = [i \in 1..10 |-> 65]
    /\ payloadId = 1
    /\ Len(packet.frame) = 132
    /\ packet.frame[14] = 255

\* C13: for a payload of 129 to 1024 bytes getPacket returns a frame that
\* starts with STX and carries the payload filled up to 1024 bytes with
\* 0xFF; for a payload of more than 1024 bytes it raises and returns no
\* frame.
C13_LargeFrame ==
    /\ (packet # NoPacket /\ 128 < Len(payload) /\ Len(payload) <= 1024) =>
        /\ ~packet.raised
        /\ packet.frame[1] = 2
        /\ Len(packet.frame) = 3 + 1024 + 1
        /\ \A i \in 1..1024 : packet.frame[3 + i] = Filled(payload, i)
    /\ (packet # NoPacket /\ Len(payload) > 1024) =>
        /\ packet.raised
        /\ packet.frame = <<>>

C13_Witness ==
    /\ packet # NoPacket
    /\ Len(payload) = 1025
    /\ packet.raised

\* C14: the last byte of a frame getPacket returns is the sum modulo 256 of
\* the bytes between the three header bytes and that last byte.
C14_Checksum ==
    (packet # NoPacket /\ ~packet.raised) =>
        packet.frame[Len(packet.frame)] =
            SumRange(packet.frame, 4, Len(packet.frame) - 1) % 256

C14_Witness ==
    /\ packet # NoPacket
    /\ ~packet.raised
    /\ Len(payload) = 129
    /\ SumRange(packet.frame, 4, Len(packet.frame) - 1) > 256
    /\ packet.frame[Len(packet.frame)] # SumRange(packet.frame, 1, Len(packet.frame) - 1) % 256

\* C15: for an ID in 0..255 getInversePacketId returns 255 - ID and
\* getNextPacketId returns (ID + 1) mod 256, which is 0 for 255; both
\* results are in 0..255.
C15_PacketIdArithmetic ==
    /\ inverseId # None => (inverseId = 255 - payloadId /\ inverseId \in 0..255)
    /\ nextId # None =>
        /\ nextId = (payloadId + 1) % 256
        /\ nextId \in 0..255
        /\ payloadId = 255 => nextId = 0

C15_Witness ==
    /\ payloadId = 255
    /\ inverseId = 0
    /\ nextId = 0

(***************************************************************************)
(* CtrlAp: properties of writeMailbox and readMailbox                      *)
(***************************************************************************)
\* C16: writeMailbox(values, timeout = T) keeps T as one deadline for the
\* whole call: counted from the start of the call, no status poll at or
\* after T is followed by more waiting, and False is not returned before T.
C16_WallClockDeadline ==
    /\ mpc \in {"wrTop", "wrWait"} =>
           (polled = None \/ polled < WriteTimeout * TicksPerSecond)
    /\ (mpc = "sent" /\ wrOk = "False") => clock >= WriteTimeout * TicksPerSecond

\* C17: readMailbox reads MailboxRxData only in a round that found
\* MailboxRxStatus nonzero, taking the pending word; it returns either None
\* or all `length` words in the order read, and None, with fewer words
\* read, when a wait or its budget ran out.
C17_ReadMailbox ==
    /\ [](/\ rdOk \in {"none", "None", "values"}
          /\ rdOk = "values" => (Len(values) = ResponseLength /\ values = rxReads)
          /\ rdOk = "None" => Len(values) < ResponseLength)
    /\ [][(rxReads' # rxReads /\ rxReads' # <<>>) =>
              (rxFull /\ ~rxFull' /\ rxReads' = Append(rxReads, rxWord))]_vars

C17_Witness ==
    /\ mpc = "sent"
    /\ rdOk = "None"
    /\ Len(values) = 1
    /\ rxFull

(***************************************************************************)
(* CtrlAp: properties of eraseAll and disableEraseProtect                  *)
(***************************************************************************)
\* C18: eraseAll() and disableEraseProtect(key) return True exactly when
\* the first read of EraseAllStatus gave 1 and a later one, of at most 30
\* in all, gave 0; when the first read did not give 1 they return False
\* after that one read, and when no later read gave 0 they return False
\* after the 30th.
C18_EraseResult ==
    /\ epolls <= 30
    /\ epc = "returned" =>
        /\ eret <=> (efirst = 1 /\ ezero)
        /\ efirst # 1 => (~eret /\ epolls = 1)
        /\ (efirst = 1 /\ ~ezero) => (~eret /\ epolls = 30)

C18_Witness ==
    /\ epc = "returned"
    /\ eop = "disableEraseProtect"
    /\ eret
    /\ efirst = 1
    /\ epolls = 30

(***************************************************************************)
(* Ahb: properties of write() and read()                                   *)
(***************************************************************************)
\* the word number of the i-th word (from 1) of the range a call was given
RangeWord(i) == (address0 + 4 * (i - 1)) \div 4

\* C19: when write(address, values) with a word-aligned address has
\* returned, values[i] is the word at address + 4*i for every i, across
\* 1024-byte boundaries too, every other word is as it was, and
\* TransferAddress was set again at each multiple of 1024 the running
\* address reached.
C19_WriteStores ==
    (aop = "write" /\ apc = "returned") =>
        /\ aret
        /\ \A i \in 1..Len(avalues) : mem[RangeWord(i)] = avalues[i]
        /\ \A w \in DOMAIN mem :
               (\A i \in 1..Len(avalues) : w # RangeWord(i)) => mem[w] = InitMem[w]
        /\ \A i \in 1..Len(avalues) :
               (address0 + 4 * i) % 1024 = 0 =>
                   \E k \in DOMAIN tarWrites : tarWrites[k] = address0 + 4 * i

C19_Witness ==
    /\ aop = "write"
    /\ apc = "returned"
    /\ address0 = 1016
    /\ Len(avalues) = 260
    /\ mem[512] = avalues[259]

\* C20: when read(address, length) has returned, its list has `length`
\* words, the i-th being the word at address + 4*i, across a 1024-byte
\* boundary too.
C20_ReadReturns ==
    (aop = "read" /\ apc = "returned") =>
        /\ Len(avalues) = alength
        /\ \A i \in 1..Len(avalues) : avalues[i] = mem[RangeWord(i)]

\* C21: a _configure call writes ControlStatus exactly when the value it
\* computes from its arguments differs from the value it has just read; a
\* call that repeats the call before it with the same arguments, nothing
\* else having touched the register in between, reads once and writes
\* nothing.
C21_ConfigureWrites ==
    cfg # NoConfigure =>
        /\ cfg.wrote <=> (NewCsw(cfg.read, cfg.args[1], cfg.args[2], cfg.args[3]) # cfg.read)
        /\ csw = NewCsw(cfg.read, cfg.args[1], cfg.args[2], cfg.args[3])
        /\ cfg.repeat => ~cfg.wrote /\ csw = cfg.read

C21_Witness ==
    /\ cfg # NoConfigure
    /\ cfg.repeat
    /\ cfg.args = <<8, 0, 1>>
    /\ cfg.read # ResetCsw
    /\ ~cfg.wrote

\* the state transfer() and _sendPacket() keep between two frames
SenderState == <<packetId, count, success, packetData>>

\* C22: the retry of a packet answered with Nak is bounded, so that
\* transfer() ends even against a peer that answers every data frame with
\* Nak: each retry uses up one of a bounded number of attempts, and a Nak
\* never sends the sender back to the very state it sent the frame from
\* (from there the same answer repeats the round without end).
C22_NakRetryBounded ==
    [][(xpc = "pktResp" /\ xpc' = "send") => SenderState' # SenderState]_vars

\* C23: the value of _sendRequest comes only from response words produced
\* for this request: a word that was already pending in MailboxRxData when
\* _sendRequest was entered is removed by the initial clear, before the
\* request is written, and is never read as a word of the response.
C23_StaleWordCleared == mpc \notin {"idle", "clear"} => stale = "no"

\* the words of the request of the running _sendRequest, from the method
\* and its argument: convert() sends its own request, then pings
ExpectedWords ==
    IF mop = "ping" \/ (mop = "convert" /\ pings > 0) THEN <<0, 0>>
    ELSE IF mop = "dfu" THEN <<1, 1, IF marg = "False" THEN 0 ELSE 1>>
    ELSE <<2, 0>>

\* C24: the words written to MailboxTxData for a request are [type, length]
\* and then the data words, in that order and each once: [0, 0] for ping,
\* [1, 1, f] for dfu with f = 1 for autoReboot None or True and 0 for False,
\* [2, 0] for convert; they are all written when writeMailbox succeeds, and
\* a response that is read has exactly 2 words.
C24_WireFormat ==
    mop # "none" =>
        /\ Len(txWrites) <= Len(ExpectedWords)
        /\ txWrites = SubSeq(ExpectedWords, 1, Len(txWrites))
        /\ wrOk = "True" => txWrites = ExpectedWords
        /\ Len(rxReads) <= 2
        /\ rdOk = "values" => Len(rxReads) = 2

C24_Witness ==
    /\ mop = "dfu"
    /\ marg = "None"
    /\ txWrites = <<1, 1, 1>>
    /\ rdOk = "values"
    /\ rxReads = <<Ok, 0>>

\* C25: transfer() raises ValueError when self.packetSize is not one of
\* TransferSizes (128, 1024), instead of sending frames for it: with such a
\* packet size no call writes a data frame.
C25_InvalidSizeRaises ==
    (xpc # "idle" /\ packetSize \notin TransferSizes) => firstId = None /\ lastFrame = <<>>

\* C26: while transfer() waits for the initial Nak, every byte that is not
\* Nak is dropped and the wait goes on: the start phase fails only when
\* startTimeout expires, never on a byte that was received.
C26_StartFailsOnlyOnTimeout ==
    [][(xpc = "start" /\ xpc' = "done") => response' = None]_vars

\* C27: transfer() writes EOT only after every chunk of the data has been
\* sent and acknowledged; a transfer whose packet loop stopped on a failed
\* packet writes nothing more to the device.
C27_EotOnlyAfterAllAcked ==
    /\ eotWrites > 0 => count >= data.len
    /\ pktFailed => eotWrites = 0

\* the bytes handed to the first n device writes of ws, one after another
RECURSIVE WrittenBytes(_, _)
WrittenBytes(ws, n) == IF n = 0 THEN <<>> ELSE WrittenBytes(ws, n - 1) \o ws[n].data

\* the number of bytes the first n device writes of ws accepted
RECURSIVE WrittenLength(_, _)
WrittenLength(ws, n) == IF n = 0 THEN 0 ELSE WrittenLength(ws, n - 1) + ws[n].accepted

\* C28: without flow control _sendData writes an n-byte frame as slices of
\* at most 256 bytes, in order, whose concatenation is the frame, in
\* ceil(n / 256) writes; with flow control it writes the whole frame in one
\* write; either way it returns True exactly when the lengths the writes
\* returned sum to n (a data frame is then followed by the wait for its
\* response).
C28_SendData ==
    [][xpc = "send" =>
          LET ws == writes'
              n  == Len(lastFrame')
          IN  /\ WrittenBytes(ws, Len(ws)) = lastFrame'
              /\ IF rtscts
                 THEN Len(ws) = 1
                 ELSE /\ Len(ws) = (n + 255) \div 256
                      /\ \A i \in 1..Len(ws) : Len(ws[i].data) <= 256
              /\ (xpc' = "pktResp") <=> (WrittenLength(ws, Len(ws)) = n)]_vars

C28_Witness ==
    /\ xpc = "pktResp"
    /\ ~rtscts
    /\ Len(lastFrame) = 1028
    /\ Len(writes) = 5
    /\ Len(writes[5].data) = 4

\* C29: a device write of a data frame that accepts fewer bytes than it was
\* given is fatal at once: it is the last write of that frame, no response
\* is awaited, the frame is not sent again, and transfer() returns False.
C29_ShortWriteFatalAtOnce ==
    /\ [](xpc = "done" /\ pktFailed => ~result)
    /\ [][xpc = "send" =>
            \A i \in 1..Len(writes') :
                writes'[i].accepted < Len(writes'[i].data) =>
                    /\ i = Len(writes')
                    /\ xpc' \notin {"pktResp", "send"}]_vars

\* C30: in a _sendRequest the clear of the channel is over before the first
\* word of the request is written to MailboxTxData (each word is written to
\* a free register), and words of the response are read only after every
\* word of the request has been written and seen consumed.
C30_ClearWriteRead ==
    /\ [](mpc = "clear" => txWrites = <<>>)
    /\ [](rxReads # <<>> =>
            /\ wrOk = "True"
            /\ txWrites = request
            /\ consumed = Len(request))
    /\ [][Len(txWrites') > Len(txWrites) => mpc = "wrTop" /\ ~txFull]_vars
    /\ [][Len(rxReads') > Len(rxReads) => mpc = "rdWait" /\ ~txFull]_vars

C30_Witness ==
    /\ mop = "dfu"
    /\ rdOk = "values"
    /\ Len(rxReads) = 2
    /\ txWrites = request
    /\ consumed = 3

\* C31: clearRx() reads MailboxRxData for as long as a word of the target is
\* there, so that at the return of clear(), the target having written
\* nothing more, MailboxRxStatus is zero: no word is left pending.
C31_ClearRxDrains ==
    [][(mpc = "clear" /\ mpc' = "wrTop") => ~rxFull']_vars

\* C32: writeMailbox writes the words to MailboxTxData one at a time, in the
\* order of the list; it writes a word only after it has read
\* MailboxTxStatus as 0 following the word before it; it returns True only
\* when every word it wrote was seen consumed; after a wait that failed it
\* writes no further word.
C32_WriteMailboxOrder ==
    /\ [](wrOk = "True" => txWrites = request /\ consumed = Len(request) /\ ~txFull)
    /\ [][Len(txWrites') > Len(txWrites) =>
            /\ txWrites' = Append(txWrites, request[Len(txWrites) + 1])
            /\ consumed = Len(txWrites)
            /\ ~txFull]_vars
    /\ [][wrOk = "False" => Len(txWrites') <= Len(txWrites)]_vars

C32_Witness ==
    /\ mop = "dfu"
    /\ wrOk = "False"
    /\ Len(txWrites) = 2
    /\ consumed = 1
    /\ txFull
    /\ mpc = "sent"

\* C33: when write(address, values, flush) has returned, what it did on the
\* port after its last data word is, with flush set, one readiness wait and
\* then one write of address + 4 * len(values) to TransferAddress, and with
\* flush not set, nothing; in both cases a re-arm of TransferAddress comes
\* first when the last word ended a 1024-byte block.
C33_WriteFlush ==
    (aop = "write" /\ apc = "returned") =>
        LET final   == address0 + 4 * Len(avalues)
            rearmed == IF Len(avalues) > 0 /\ final % 1024 = 0
                       THEN <<[op |-> "tar", v |-> final]>>
                       ELSE <<>>
            flushed == IF aflush
                       THEN <<[op |-> "wait", v |-> 0], [op |-> "tar", v |-> final]>>
                       ELSE <<>>
        IN  atail = rearmed \o flushed

C33_Witness ==
    /\ aop = "write"
    /\ apc = "returned"
    /\ aflush
    /\ address0 = 1020
    /\ Len(avalues) = 1
    /\ atail = <<[op |-> "tar", v |-> 1024], [op |-> "wait", v |-> 0], [op |-> "tar", v |-> 1024]>>

\* C34: _waitReady polls ControlStatus until the port is ready: it returns
\* only after a read of ControlStatus whose bit 7 (transfer in progress) is
\* clear, and goes on polling while that bit is set.
C34_WaitsForBit7 ==
    [][(apc \in Waiting /\ apc' # apc) => ~busy']_vars

\* C35: _waitReady has no deadline: a ControlStatus read that raises is
\* swallowed and followed by another read, however many have raised before,
\* so the wait ends only with a read that succeeds; as long as every read
\* has raised, read() and write() are still in that wait and have not
\* returned.
C35_NoDeadline ==
    /\ [](allFailed => apc \in Waiting /\ apc # "returned" /\ ~aret)
    /\ [][(apc \in Waiting /\ allFailed') => (apc' = apc /\ apolls' = apolls + 1)]_vars
    /\ [][(apc \in Waiting /\ apc' # apc) => ~allFailed']_vars

C35_Witness ==
    /\ aop = "write"
    /\ apc = "flushReady"
    /\ allFailed
    /\ apolls = MaxPolls

\* C36: when transfer(data) returns True with packetSize 128 or 1024, the
\* payloads of the acknowledged frames, in order and without the 0xFF
\* padding, concatenate to data, for a bytes and for a bytearray object:
\* the first frame starts at offset 0, each acknowledged frame carries the
\* chunk at the current offset followed by padding only, the next chunk
\* starts where this one ended unless the data is used up, and at the return
\* of True the offset has passed the whole data in as many acknowledged
\* frames as there are chunks.
C36_AllDataOnce ==
    /\ []((xpc = "done" /\ result) =>
            /\ count >= data.len
            /\ firstCount \in {0, None}
            /\ acked = NumChunks(data, packetSize))
    /\ [][(xpc = "pktResp" /\ xpc' = "loop") =>
            LET chunk   == DataSlice(data, count, count + packetSize)
                carried == SubSeq(lastFrame, 4, Len(lastFrame) - 1)
            IN  /\ Len(chunk) >= 1
                /\ SubSeq(carried, 1, Len(chunk)) = chunk
                /\ \A i \in (Len(chunk) + 1)..Len(carried) : carried[i] = 255
                /\ \/ count' = count + Len(chunk)
                   \/ (count + Len(chunk) = data.len /\ count' > data.len)]_vars

C36_Witness ==
    /\ xpc = "done"
    /\ result
    /\ data.mutable
    /\ data.len = 1025
    /\ packetSize = 1024
    /\ acked = 2
    /\ count = 1024 + 128

\* C37: getPacket leaves the packetData object of its caller as it was: the
\* 0xFF padding is in the returned frame only, and after the call the
\* caller's buffer has the length and the content it had before.
C37_CallerBufferKept ==
    packet # NoPacket => packet.buffer = payload

\* C38: convert() returns True only if the words of its own Convert request
\* were consumed by the target: a Convert request whose write timed out is
\* not reported as success, whatever a later ping is answered.
C38_ConvertDelivered ==
    (mop = "convert" /\ mpc = "returned" /\ mret) => convSent = "True"

\* C39: readMailbox(length, timeout = T) does not report None at a moment
\* when the last word of the response is in MailboxRxData and less than T
\* has passed since the call started.
C39_ReadWithinTimeout ==
    [][(mpc = "rdWait" /\ rdOk = "none" /\ rdOk' = "None")
         => ~(/\ rxFull
              /\ Len(values) = ResponseLength - 1
              /\ clock < ResponseTimeout * TicksPerSecond)]_vars

=============================================================================
